---- MODULE Spec2Model ----
(***************************************************************************)
(* MAX6675 thermocouple driver (src/src/lib.rs).                           *)
(*                                                                         *)
(* One acquisition, Max6675::get_temperature, is modelled step by step:    *)
(*   cs.set_low()  ->  spi.transfer(&mut buffer)?  ->  cs.set_high()       *)
(*   ->  Reading { temp, is_open, device_id }  ->  match in get_temperature*)
(* The select line and the bus are the two collaborators: either select    *)
(* line operation may fail (the result is discarded with `let _ =`), the   *)
(* exchange may fail with any transport error detail, and a successful     *)
(* exchange may deliver any two bytes.                                     *)
(*                                                                         *)
(* An f32 temperature is represented exactly, in hundredths of a degree:   *)
(* 1023.75 is 102375.  `temp as f32` is exact for a u16 and `* 0.25` is an *)
(* exact scaling by a power of two, so no rounding is lost.                *)
(***************************************************************************)
EXTENDS Integers, Sequences, FiniteSets, TLC

VARIABLES
    pc,       \* position of the caller inside get_temperature / read_spi
    cs,       \* physical level of the select line: "high" (inactive) or "low"
    buffer,   \* the two-byte transfer buffer of read_spi
    reading,  \* the Result<Reading, E> read_spi hands to get_temperature
    result,   \* the Result<f32, Error> get_temperature returns
    xfer,     \* history: what the transport did in the current call
    ops,      \* history: the collaborator operations of the latest call, in order
    ncalls,   \* history: number of calls started on this Reader
    first,    \* history: exchange outcome and result of this Reader's first call
    last      \* history: outcome and result of the final call of the Reader
              \* that owned the bus and the select line before this one

vars == <<pc, cs, buffer, reading, result, xfer, ops, ncalls, first, last>>

\* ------------------------------------------------------------------ bounds

\* Number of acquisitions made on one Reader in the sequence specification.
MaxCalls == 3

\* ------------------------------------------------------------------ domains

\* u8
Byte == 0..255

\* Bytes the transport delivers in the sequence specification: as low byte
\* they set bit 0, bit 1, bit 2, bits 2 and 1, or none; as high byte they set
\* or clear bit 15; 127 and 248 make the largest 12-bit temperature.
SampleBytes == {0, 1, 2, 4, 6, 127, 128, 248}

\* Error details of the transport (the opaque associated type E).
TransportErrors == {"Overrun", "ModeFault"}

\* ------------------------------------------------------------------ u16 arithmetic

\* x << n on a u16
Shl(x, n) == (x * (2 ^ n)) % (2 ^ 16)

\* x >> n on a u16
Shr(x, n) == x \div (2 ^ n)

RECURSIVE BitAnd(_, _)
\* a & b
BitAnd(a, b) ==
    IF a = 0 \/ b = 0 THEN 0
    ELSE (a % 2) * (b % 2) + 2 * BitAnd(a \div 2, b \div 2)

RECURSIVE BitOr(_, _)
\* a | b
BitOr(a, b) ==
    IF a = 0 THEN b
    ELSE IF b = 0 THEN a
    ELSE (IF a % 2 = 1 \/ b % 2 = 1 THEN 1 ELSE 0) + 2 * BitOr(a \div 2, b \div 2)

\* ------------------------------------------------------------------ results

Ok(v) == [ok |-> TRUE, val |-> v]

Err(e) == [ok |-> FALSE, err |-> e]

\* pub enum Error
Error == {"BusError", "ThermocoupleDisconnected"}

\* ------------------------------------------------------------------ read_spi, decoding

\* mutant: little-endian assembly
raw_reading_le(buf) == BitOr(Shl(buf[2], 8), buf[1])

\* let raw_reading: u16 = (buffer[0] as u16) << 8 | buffer[1] as u16;
\* (buf[1] is the first received byte, buffer[0] of the source)
raw_reading(buf) == BitOr(Shl(buf[1], 8), buf[2])

\* mutant: the temperature field taken one bit too low
Reading_shr2(raw) ==
    [ temp      |-> Shr(raw, 2),
      is_open   |-> Shr(BitAnd(raw, 4), 2) = 1,
      device_id |-> Shr(BitAnd(raw, 2), 1) ]

\* Reading { temp: raw_reading >> 3, is_open: .., device_id: .. }
Reading(raw) ==
    [ temp      |-> Shr(raw, 3),
      is_open   |-> Shr(BitAnd(raw, 4), 2) = 1,
      device_id |-> Shr(BitAnd(raw, 2), 1) ]

\* ------------------------------------------------------------------ get_temperature

\* `temp as f32`, in hundredths of a degree
as_f32(n) == n * 100

\* `x * 0.25` on hundredths of a degree
mul_quarter(x) == x \div 4

\* mutant: the device-id check dropped
get_temperature_no_id(r) ==
    IF r.ok
    THEN IF r.val.is_open THEN Err("ThermocoupleDisconnected")
         ELSE Ok(mul_quarter(as_f32(r.val.temp)))
    ELSE Err("BusError")

\* mutant: the device-id check made before the open-circuit check
get_temperature_id_first(r) ==
    IF r.ok
    THEN IF r.val.device_id # 0 THEN Err("BusError")
         ELSE IF r.val.is_open THEN Err("ThermocoupleDisconnected")
         ELSE Ok(mul_quarter(as_f32(r.val.temp)))
    ELSE Err("BusError")

\* mutant: a failed exchange reported as a reading of the zeroed buffer
get_temperature_ok_on_err(r) ==
    IF r.ok
    THEN IF r.val.is_open THEN Err("ThermocoupleDisconnected")
         ELSE IF r.val.device_id # 0 THEN Err("BusError")
         ELSE Ok(mul_quarter(as_f32(r.val.temp)))
    ELSE Ok(mul_quarter(as_f32(0)))

\* the match of get_temperature on the Result of read_spi
get_temperature(r) ==
    IF r.ok
    THEN IF r.val.is_open THEN Err("ThermocoupleDisconnected")
         ELSE IF r.val.device_id # 0 THEN Err("BusError")
         ELSE Ok(mul_quarter(as_f32(r.val.temp)))
    ELSE Err("BusError")

\* ------------------------------------------------------------------ state

NoReading == [pending |-> TRUE]

NoResult == [pending |-> TRUE]

NoXfer == [pending |-> TRUE]

NoCall == [called |-> FALSE]

\* What the exchange of a call yielded: failure, or success with a frame.
Outcome(x) == IF x.ok THEN [ok |-> TRUE, rx |-> x.rx] ELSE [ok |-> FALSE]

\* Max6675::new: nothing is driven or read; the select line idles inactive.
Init ==
    /\ pc = "idle"
    /\ cs = "high"
    /\ buffer = <<0, 0>>
    /\ reading = NoReading
    /\ result = NoResult
    /\ xfer = NoXfer
    /\ ops = <<>>
    /\ ncalls = 0
    /\ first = NoCall
    /\ last = NoCall

\* ------------------------------------------------------------------ actions

\* mutant: a select-line failure propagated with `?`
SetLow_propagate ==
    /\ pc = "idle"
    /\ \E ok \in BOOLEAN :
          /\ cs' = IF ok THEN "low" ELSE cs
          /\ ops' = << [op |-> "set_low", ok |-> ok] >>
          /\ pc' = IF ok THEN "transfer" ELSE "classify"
          /\ reading' = IF ok THEN reading ELSE Err("Pin")
          /\ xfer' = IF ok THEN xfer ELSE [ok |-> FALSE, err |-> "Pin"]
    /\ buffer' = <<0, 0>>
    /\ ncalls' = ncalls + 1
    /\ UNCHANGED <<result, first, last>>

\* get_temperature is entered, read_spi starts:
\*   let _ = self.cs.set_low();  let mut buffer = [0u8; 2];
SetLow ==
    /\ pc = "idle"
    /\ \E ok \in BOOLEAN :
          /\ cs' = IF ok THEN "low" ELSE cs
          /\ ops' = << [op |-> "set_low", ok |-> ok] >>
    /\ buffer' = <<0, 0>>
    /\ pc' = "transfer"
    /\ ncalls' = ncalls + 1
    /\ UNCHANGED <<reading, result, xfer, first, last>>

\* mutant: the two bytes fetched by two exchanges
Transfer_twice(B) ==
    /\ pc = "transfer"
    /\ \E b0 \in B, b1 \in B :
          /\ buffer' = <<b0, b1>>
          /\ xfer' = [ok |-> TRUE, rx |-> <<b0, b1>>]
          /\ ops' = ops \o << [op |-> "transfer", ok |-> TRUE],
                             [op |-> "transfer", ok |-> TRUE] >>
          /\ pc' = "set_high"
          /\ UNCHANGED reading
    /\ UNCHANGED <<cs, result, ncalls, first, last>>

\* self.spi.transfer(&mut buffer)?;
\* A successful exchange fills the buffer with the two received bytes.  A
\* failed one may have written part of the buffer; `?` returns Err(e) from
\* read_spi at once, so set_high is not reached.
Transfer(B) ==
    /\ pc = "transfer"
    /\ \/ \E b0 \in B, b1 \in B :
             /\ buffer' = <<b0, b1>>
             /\ xfer' = [ok |-> TRUE, rx |-> <<b0, b1>>]
             /\ ops' = Append(ops, [op |-> "transfer", ok |-> TRUE])
             /\ pc' = "set_high"
             /\ UNCHANGED reading
       \/ \E e \in TransportErrors, b0 \in B :
             /\ buffer' = <<b0, buffer[2]>>
             /\ xfer' = [ok |-> FALSE, err |-> e]
             /\ ops' = Append(ops, [op |-> "transfer", ok |-> FALSE])
             /\ reading' = Err(e)
             /\ pc' = "classify"
    /\ UNCHANGED <<cs, result, ncalls, first, last>>

\* let _ = self.cs.set_high();  then the Reading is built and returned Ok.
SetHigh ==
    /\ pc = "set_high"
    /\ \E ok \in BOOLEAN :
          /\ cs' = IF ok THEN "high" ELSE cs
          /\ ops' = Append(ops, [op |-> "set_high", ok |-> ok])
    /\ reading' = Ok(Reading(raw_reading(buffer)))
    /\ pc' = "classify"
    /\ UNCHANGED <<buffer, result, xfer, ncalls, first, last>>

\* mutant: the result of the first call is kept and returned again
GetTemperature_cached ==
    /\ pc = "classify"
    /\ result' = IF ncalls > 1 THEN first.result ELSE get_temperature(reading)
    /\ first' = IF ncalls = 1
                THEN [called |-> TRUE, outcome |-> Outcome(xfer), result |-> result']
                ELSE first
    /\ pc' = "done"
    /\ UNCHANGED <<cs, buffer, reading, xfer, ops, ncalls, last>>

\* match reading { .. }: the result of get_temperature
GetTemperature ==
    /\ pc = "classify"
    /\ result' = get_temperature(reading)
    /\ first' = IF ncalls = 1
                THEN [called |-> TRUE, outcome |-> Outcome(xfer), result |-> result']
                ELSE first
    /\ pc' = "done"
    /\ UNCHANGED <<cs, buffer, reading, xfer, ops, ncalls, last>>

\* The call returns; its locals are gone.  The Reader (spi, cs) is ready
\* for the next call.  (A Reader built by New is followed for its first
\* call only.)
Return ==
    /\ pc = "done"
    /\ ncalls < MaxCalls
    /\ ~last.called
    /\ pc' = "idle"
    /\ buffer' = <<0, 0>>
    /\ reading' = NoReading
    /\ result' = NoResult
    /\ xfer' = NoXfer
    /\ UNCHANGED <<cs, ops, ncalls, first, last>>

\* The call returns and the caller moves spi and cs (pub fields) into a
\* fresh Reader: Max6675::new(spi, cs).  Nothing is driven; the select line
\* keeps the level the old Reader left it at.  The old Reader's final
\* outcome and result are remembered for comparison.
New ==
    /\ pc = "done"
    /\ ~last.called
    /\ last' = [called |-> TRUE, outcome |-> Outcome(xfer),
                result |-> result, n |-> ncalls]
    /\ pc' = "idle"
    /\ buffer' = <<0, 0>>
    /\ reading' = NoReading
    /\ result' = NoResult
    /\ xfer' = NoXfer
    /\ ops' = <<>>
    /\ ncalls' = 0
    /\ first' = NoCall
    /\ UNCHANGED cs

\* ------------------------------------------------------------------ specifications

\* One acquisition on a fresh Reader; the transport may deliver any of the
\* 65536 frames.
Next == SetLow \/ Transfer(Byte) \/ SetHigh \/ GetTemperature

Spec == Init /\ [][Next]_vars

\* Up to MaxCalls acquisitions in a row on one Reader, then the first
\* acquisition of a fresh Reader on the same bus and select line.
NextSeq ==
    SetLow \/ Transfer(SampleBytes) \/ SetHigh \/ GetTemperature \/ Return \/ New

SpecSeq == Init /\ [][NextSeq]_vars

\* ------------------------------------------------------------------ vocabulary of the properties

\* The 16-bit frame of two received bytes, first byte the high-order one.
Frame(rx) == 256 * rx[1] + rx[2]

\* Bit n of frame f.
Bit(f, n) == (f \div (2 ^ n)) % 2

\* Names of the operations logged, in order.
OpNames(log) == [i \in 1..Len(log) |-> log[i].op]

\* The select-line operations logged, in order.
CsOps(log) == SelectSeq(OpNames(log), LAMBDA o : o # "transfer")

\* Number of exchanges logged.
Exchanges(log) == Cardinality({i \in 1..Len(log) : log[i].op = "transfer"})

\* Some select-line operation of the log failed.
CsFailed(log) == \E i \in 1..Len(log) : log[i].op # "transfer" /\ ~log[i].ok

\* s is an initial segment of t.
IsPrefix(s, t) == Len(s) <= Len(t) /\ \A i \in 1..Len(s) : s[i] = t[i]

\* The call has returned after a successful exchange.
DoneOk == pc = "done" /\ xfer.ok

\* The call has returned after a failed exchange.
DoneFailed == pc = "done" /\ ~xfer.ok

\* ------------------------------------------------------------------ C1

\* C1: a successful exchange returning a frame with bit 15, bit 2 and bit 1
\* clear and bits 14..3 equal to t makes the acquisition return Ok(t * 0.25),
\* for every t in 0..4095 and either value of bit 0.
C1_TicksScaled ==
    DoneOk /\ Bit(Frame(xfer.rx), 15) = 0
           /\ Bit(Frame(xfer.rx), 2) = 0
           /\ Bit(Frame(xfer.rx), 1) = 0
    => result = Ok(25 * ((Frame(xfer.rx) \div 8) % 4096))

\* t = 4095 with bit 0 set has returned 1023.75.
C1_Witness ==
    DoneOk /\ xfer.rx = <<127, 249>> /\ result = Ok(102375)

\* ------------------------------------------------------------------ C2

\* C2: for every frame of a successful exchange, bit 15 set or not, the
\* temperature field is bits 14..3 only and lies in 0..4095, and a success
\* value is a non-negative multiple of 0.25 in [0.0, 1023.75].
C2_TicksInRange ==
    /\ pc \in {"classify", "done"} /\ reading.ok
       => /\ reading.val.temp \in 0..4095
          /\ reading.val.temp = (Frame(xfer.rx) \div 8) % 4096
    /\ pc = "done" /\ result.ok
       => result.val \in 0..102375 /\ result.val % 25 = 0

\* ------------------------------------------------------------------ C3

\* C3: every call drives the select line exactly twice, active then inactive,
\* whatever the outcome; after any call the last select-line operation is
\* "set inactive".
C3_SelectTwice ==
    pc = "done" => CsOps(ops) = <<"set_low", "set_high">>

\* ------------------------------------------------------------------ C4

\* C4 as stated: a frame with open_circuit clear and device_id set returns
\* the error kind ProtocolMismatch, a value different from the one returned
\* when the exchange itself fails.
C4_ProtocolMismatchDistinct ==
    DoneOk /\ Bit(Frame(xfer.rx), 2) = 0 /\ Bit(Frame(xfer.rx), 1) = 1
    => /\ result = Err("ProtocolMismatch")
       /\ \A e \in TransportErrors : result # get_temperature(Err(e))

\* C4 as amended: a frame with open_circuit clear and device_id set returns
\* Error::BusError, the same value a failed exchange returns; the three
\* causes map to the two values BusError and ThermocoupleDisconnected.
C4_DeviceIdIsBusError ==
    /\ DoneOk /\ Bit(Frame(xfer.rx), 2) = 0 /\ Bit(Frame(xfer.rx), 1) = 1
       => result = Err("BusError")
    /\ DoneFailed => result = Err("BusError")
    /\ pc = "done" /\ ~result.ok => result.err \in Error

\* A frame with device_id set, open_circuit clear and a nonzero temperature
\* has returned BusError.
C4_Witness ==
    DoneOk /\ xfer.rx = <<127, 250>> /\ result = Err("BusError")

\* ------------------------------------------------------------------ C5

\* C5: a frame with the open_circuit bit set returns ThermocoupleDisconnected
\* whatever the device_id bit, the temperature bits and bit 0.
C5_OpenCircuitFirst ==
    DoneOk /\ Bit(Frame(xfer.rx), 2) = 1
    => result = Err("ThermocoupleDisconnected")

\* A frame with both open_circuit and device_id set has returned
\* ThermocoupleDisconnected.
C5_Witness ==
    DoneOk /\ xfer.rx = <<255, 255>> /\ result = Err("ThermocoupleDisconnected")

\* ------------------------------------------------------------------ C6

\* C6: a failed exchange returns the bus error and never a temperature,
\* whatever the buffer holds and whatever the transport's error detail, after
\* that single exchange.
C6_TransferFailure ==
    DoneFailed
    => /\ result = Err("BusError")
       /\ Exchanges(ops) = 1

\* An exchange that failed after writing a byte into the buffer has returned.
C6_Witness ==
    DoneFailed /\ xfer.err = "Overrun" /\ buffer[1] = 255 /\ ~result.ok

\* ------------------------------------------------------------------ C7

\* C7: after any sequence of earlier calls, a call whose exchange yields
\* outcome o returns what the first call of a fresh Reader returns for
\* outcome o; in particular a later call of one Reader that repeats the
\* outcome of its first call repeats its result.
C7_NoCrossCallState ==
    /\ pc = "done" /\ last.called /\ Outcome(xfer) = last.outcome
       => result = last.result
    /\ pc = "done" /\ ncalls > 1 /\ Outcome(xfer) = first.outcome
       => result = first.result

\* The first call of a fresh Reader has repeated the successful outcome of
\* the third call of the Reader before it, which had left the select line
\* active.
C7_Witness ==
    /\ pc = "done" /\ last.called /\ last.n = 3 /\ ncalls = 1
    /\ xfer.ok /\ Outcome(xfer) = last.outcome
    /\ result.ok /\ result = last.result
    /\ ~ops[1].ok /\ cs = "low"

\* ------------------------------------------------------------------ C8

\* C8: within a call the select line is driven active first, then exactly one
\* exchange is made, and on a successful exchange the select line is driven
\* inactive before the result is classified; it is never driven inactive
\* between "set active" and the exchange.
C8_FixedOrder ==
    /\ ncalls > 0 => /\ IsPrefix(OpNames(ops), <<"set_low", "transfer", "set_high">>)
                     /\ Len(ops) >= 1
    /\ pc \in {"set_high", "classify", "done"} => Exchanges(ops) = 1
    /\ pc \in {"classify", "done"} /\ xfer.ok
       => OpNames(ops) = <<"set_low", "transfer", "set_high">>

\* A second call has completed its three operations in order.
C8_Witness ==
    /\ pc = "done" /\ ncalls = 2 /\ xfer.ok
    /\ OpNames(ops) = <<"set_low", "transfer", "set_high">>

\* ------------------------------------------------------------------ C9

\* C9: when a select-line operation fails the exchange is still made and the
\* result is the one the exchange outcome and the frame determine.
C9_SelectFailureIgnored ==
    pc = "done" /\ CsFailed(ops)
    => /\ Exchanges(ops) = 1
       /\ ~xfer.ok => result = Err("BusError")
       /\ xfer.ok /\ Bit(Frame(xfer.rx), 2) = 1
          => result = Err("ThermocoupleDisconnected")
       /\ xfer.ok /\ Bit(Frame(xfer.rx), 2) = 0 /\ Bit(Frame(xfer.rx), 1) = 1
          => result = Err("BusError")
       /\ xfer.ok /\ Bit(Frame(xfer.rx), 2) = 0 /\ Bit(Frame(xfer.rx), 1) = 0
          => result = Ok(25 * (Frame(xfer.rx) \div 8))

\* Both select-line operations failed and the call returned 1023.75.
C9_Witness ==
    /\ pc = "done" /\ Len(ops) = 3
    /\ ~ops[1].ok /\ ~ops[3].ok
    /\ xfer.rx = <<127, 248>> /\ result = Ok(102375)

\* ------------------------------------------------------------------ C10

====
